---- MODULE Spec2Model ----
(***************************************************************************)
(* Model of backend/app.py: the relational store (tables loans, payments,  *)
(* transactions) and the six request handlers of the Flask application.    *)
(*                                                                         *)
(* Spec      every request runs start to finish (one handler = one step).  *)
(* SpecConc  two request workers run the upsert and delete handlers with   *)
(*           their lookup and their commit as separate, interleaved steps. *)
(*                                                                         *)
(* Columns of Loan that the handlers copy from the payload exactly like    *)
(* `lender` (interest_rate, emi_amount, tenure_months, due_date_day, type, *)
(* initial_paid_months) and the columns category/description of            *)
(* Transaction are represented by `lender` resp. `type`.  Result lists     *)
(* (no ORDER BY in the queries) are sets.                                  *)
(***************************************************************************)
EXTENDS Integers, Sequences, FiniteSets, TLC

\* ------------------------------------------------------------------ bounds
\* the most rows the store holds at once (over the three tables)
MaxRows == 3

\* ------------------------------------------------------------------ values
None == "None"

\* the ids clients send and uuid4 generates, per table
LoanIds == {"id1", "id2"}
PaymentIds == {"id1", "id2"}
TxIds == {"id1"}

Users == {"A", "B"}
\* request.args.get('userId'): a user id, or None when the parameter is absent
UserArgs == Users \cup {None}

\* dict.get(key, default)
Get(data, key, default) == IF key \in DOMAIN data THEN data[key] ELSE default

\* str.split('T')
Split(s) ==
    IF s = "2024-03-15T00:00:00Z" THEN <<"2024-03-15", "00:00:00Z">>
    ELSE IF s = "2024-3-5T00:00:00Z" THEN <<"2024-3-5", "00:00:00Z">>
    ELSE <<s>>

\* datetime.strptime(s, '%Y-%m-%d').date(): the set holding the parsed date, or
\* the empty set when strptime raises ValueError
Strptime(s) ==
    IF s = "2024-03-15" THEN {<<2024, 3, 15>>}
    ELSE IF s = "2024-3-5" THEN {<<2024, 3, 5>>}
    ELSE {}

\* date.isoformat()
Isoformat(d) ==
    IF d = <<2024, 3, 15>> THEN "2024-03-15"
    ELSE IF d = <<2024, 3, 5>> THEN "2024-03-05"
    ELSE None

\* ------------------------------------------------------------------ payloads
\* JSON bodies of POST /api/loans (request.json), without the id key
LoanBodies ==
    { [name |-> "car", principal |-> 2, startDate |-> "2024-03-15"],
      [name |-> "car", lender |-> "bank", principal |-> 1,
       startDate |-> "2024-3-5T00:00:00Z", status |-> "closed",
       isForeclosed |-> TRUE, payments |-> {[id |-> "id1", amount |-> 1]}],
      [principal |-> 2, startDate |-> "2024-03-15"],
      [name |-> "car", principal |-> 2, startDate |-> "15/03/2024"] }

WithId(body, ids) == {body} \cup {body @@ [id |-> i] : i \in ids}

LoanPayloads == UNION {WithId(b, LoanIds) : b \in LoanBodies}

\* JSON bodies of POST /api/payments, without the id and loanId keys
PaymentBodies ==
    { [date |-> "2024-03-15", amount |-> 1, note |-> "emi"],
      [date |-> "2024-03-15T00:00:00Z", amount |-> 1] }

PaymentPayloads ==
    UNION { UNION {WithId(b, PaymentIds) : b \in {pb} \cup {pb @@ [loanId |-> l] : l \in LoanIds}}
            : pb \in PaymentBodies }

\* JSON bodies of POST /api/transactions, without the id key
TxBodies ==
    { [date |-> "2024-03-15", amount |-> 1, type |-> "income"],
      [date |-> "2024-3-5", amount |-> 2, type |-> "expense"],
      [date |-> "2024-03-15", amount |-> 1],
      [date |-> "15/03/2024", amount |-> 1, type |-> "income"] }

TxPayloads == UNION {WithId(b, TxIds) : b \in TxBodies}

\* ------------------------------------------------------------------ state
VARIABLES
    loans,          \* table loans: id -> row
    payments,       \* table payments: id -> row
    transactions,   \* table transactions: id -> row
    foreign_keys,   \* whether the store behind DATABASE_URL enforces FOREIGN KEY
    last,           \* Spec: the most recent request, what it found and its response
    createdBy,      \* Spec: for each stored loan, the userId of the upsert that created it
    workers,        \* SpecConc: the request each worker is serving and how far it is
    commits         \* SpecConc: the workers that committed in this round, in commit order

vars == <<loans, payments, transactions, foreign_keys, last, createdBy, workers, commits>>
seqVars == <<last, createdBy>>
concVars == <<workers, commits>>

\* ------------------------------------------------------------------ serialization
\* Payment.to_dict
PaymentToDict(id, p) ==
    [id |-> id, date |-> Isoformat(p.date), amount |-> p.amount, note |-> p.note]

\* Loan.payments: the rows of payments whose loan_id is the loan's id
LoanPaymentIds(P, loan_id) == {pid \in DOMAIN P : P[pid].loan_id = loan_id}

\* Loan.to_dict
LoanToDict(id, l, P) ==
    [id |-> id, name |-> l.name, lender |-> l.lender, principal |-> l.principal,
     startDate |-> Isoformat(l.start_date), status |-> l.status,
     isForeclosed |-> l.is_foreclosed,
     payments |-> {PaymentToDict(pid, P[pid]) : pid \in LoanPaymentIds(P, id)}]

\* Transaction.to_dict, of a row
TransactionToDict(id, t) ==
    [id |-> id, date |-> Isoformat(t.date), amount |-> t.amount, type |-> t.type]

\* ------------------------------------------------------------------ responses
ServerError == [status |-> 500, body |-> [error |-> "Internal Server Error"]]

\* ------------------------------------------------------------------ GET /api/sync
get_user_data(L, P, T, user_id) ==
    IF user_id = None
    THEN [status |-> 400, body |-> [error |-> "User ID required"]]
    ELSE [status |-> 200,
          body |-> [loans |-> {LoanToDict(id, L[id], P) : id \in {i \in DOMAIN L : L[i].user_id = user_id}},
                    transactions |-> {TransactionToDict(id, T[id]) : id \in {i \in DOMAIN T : T[i].user_id = user_id}}]]

\* ------------------------------------------------------------------ POST /api/loans
\* variant: the existence check never finds the row
LoanQueryGetAbsent(L, id) == {}

\* Loan.query.get(data.get('id')): the set holding the row read, empty when absent
LoanQueryGet(L, id) == IF id \in DOMAIN L THEN {L[id]} ELSE {}

\* the date of data.get('startDate').split('T')[0]; empty when the key is absent
\* (AttributeError) or the text is no date (ValueError)
LoanStartDate(data) ==
    IF "startDate" \in DOMAIN data THEN Strptime(Split(data.startDate)[1]) ELSE {}

\* the attribute assignments "Update fields"
LoanAttrs(data, start_date) ==
    [name |-> Get(data, "name", None), lender |-> Get(data, "lender", None),
     principal |-> data.principal, start_date |-> start_date,
     status |-> Get(data, "status", "active"),
     is_foreclosed |-> Get(data, "isForeclosed", FALSE)]

\* variant: every upsert attributes the row to the requesting user
LoanOwnerReassigned(snap, user_id) == user_id

\* user_id of the row: set by the constructor call of a new Loan only
LoanOwner(snap, user_id) ==
    IF snap = {} THEN user_id ELSE (CHOOSE r \in snap : TRUE).user_id

\* variant: the owner column is never written by an UPDATE
ChangedColumnsKeepOwner(new, old) == {f \in DOMAIN new : new[f] # old[f]} \ {"user_id"}

\* variant: an UPDATE writes every column, changed or not
ChangedColumnsAll(new, old) == DOMAIN new

\* the unit of work writes the columns whose new value differs from the value loaded
ChangedColumns(new, old) == {f \in DOMAIN new : new[f] # old[f]}

\* variant: "Clear existing (simple strategy for sync)"
HandleNestedPaymentsClear(P, data, id) ==
    IF "payments" \in DOMAIN data
    THEN [pid \in DOMAIN P \ LoanPaymentIds(P, id) |-> P[pid]]
    ELSE P

\* "Handle Payments nested in Loan": pass
HandleNestedPayments(P, data, id) == P

\* the handler from the attribute assignments on, given the row its lookup read
\* (snap) and the uuid4 the id default would generate (fresh)
save_loan_commit(L, P, data, user_id, snap, fresh) ==
    LET id == Get(data, "id", None)
        sd == LoanStartDate(data)
        fail == ServerError @@ [loans |-> L, payments |-> P]
    IN
    IF sd = {} THEN fail
    ELSE
      LET new == LoanAttrs(data, CHOOSE d \in sd : TRUE)
          P2 == HandleNestedPayments(P, data, id)
      IN
      IF snap = {}
      THEN \* INSERT of the new Loan
        LET pk == IF id = None THEN fresh ELSE id
            row == new @@ [user_id |-> LoanOwner(snap, user_id)]
        IN
        IF pk \in DOMAIN L \/ row.user_id = None \/ row.name = None
        THEN fail
        ELSE [loans |-> L @@ (pk :> row), payments |-> P2, status |-> 200,
              body |-> LoanToDict(pk, row, P2)]
      ELSE \* UPDATE of the Loan read
        LET old == CHOOSE r \in snap : TRUE
            changed == ChangedColumns(new, [f \in DOMAIN new |-> old[f]])
        IN
        IF id \notin DOMAIN L
        THEN fail   \* StaleDataError (UPDATE) or ObjectDeletedError (to_dict)
        ELSE IF "name" \in changed /\ new.name = None
        THEN fail
        ELSE
          LET row == [f \in DOMAIN L[id] |->
                        IF f \in changed THEN new[f]
                        ELSE IF f = "user_id" THEN LoanOwner({L[id]}, user_id)
                        ELSE L[id][f]]
          IN
          IF row.user_id = None THEN fail
          ELSE [loans |-> [L EXCEPT ![id] = row], payments |-> P2, status |-> 200,
                body |-> LoanToDict(id, row, P2)]

save_loan(L, P, data, user_id, fresh) ==
    save_loan_commit(L, P, data, user_id, LoanQueryGet(L, Get(data, "id", None)), fresh)

\* ------------------------------------------------------------------ DELETE /api/loans/<loan_id>
\* variant: no cascade on the relationship
CascadeDeleteNone(P, loan_id) == P

\* relationship(..., cascade="all, delete-orphan"): deleting a Loan deletes its payments
CascadeDelete(P, loan_id) ==
    [pid \in DOMAIN P \ LoanPaymentIds(P, loan_id) |-> P[pid]]

\* variant: the confirmation is returned whether or not the loan was found
delete_loan_always_ok(L, P, loan_id, snap) ==
    [loans |-> [i \in DOMAIN L \ {loan_id} |-> L[i]],
     payments |-> CascadeDelete(P, loan_id),
     status |-> 200, body |-> [message |-> "Deleted successfully"]]

\* the handler from `if loan:` on, given the row its lookup read (snap)
delete_loan_commit(L, P, loan_id, snap) ==
    IF snap # {}
    THEN [loans |-> [i \in DOMAIN L \ {loan_id} |-> L[i]],
          payments |-> CascadeDelete(P, loan_id),
          status |-> 200, body |-> [message |-> "Deleted successfully"]]
    ELSE [loans |-> L, payments |-> P,
          status |-> 404, body |-> [error |-> "Loan not found"]]

delete_loan(L, P, loan_id) ==
    delete_loan_commit(L, P, loan_id, LoanQueryGet(L, loan_id))

\* ------------------------------------------------------------------ POST /api/payments
\* variant: the payment is merged (upserted) instead of added
InsertPaymentMerge(P, pk, row) ==
    {[i \in DOMAIN P \cup {pk} |-> IF i = pk THEN row ELSE P[i]]}

\* db.session.add(payment) and its INSERT
InsertPayment(P, pk, row) ==
    IF pk \in DOMAIN P THEN {} ELSE {P @@ (pk :> row)}

\* the cumulative amount of the payments pids
RECURSIVE SumAmounts(_, _)
SumAmounts(P, pids) ==
    IF pids = {} THEN 0
    ELSE LET x == CHOOSE i \in pids : TRUE IN P[x].amount + SumAmounts(P, pids \ {x})

\* variant: the loan is closed once its payments reach the principal
CheckCloseLoanClosing(L, P, loan_id) ==
    IF loan_id \in DOMAIN L /\ SumAmounts(P, LoanPaymentIds(P, loan_id)) >= L[loan_id].principal
    THEN [L EXCEPT ![loan_id].status = "closed"]
    ELSE L

\* "Check if we need to close the loan": the loan is read, nothing is done with it
CheckCloseLoan(L, P, loan_id) == L

add_payment(L, P, data, fk, fresh) ==
    LET id == Get(data, "id", None)
        loan_id == Get(data, "loanId", None)
        d == IF "date" \in DOMAIN data THEN Strptime(data.date) ELSE {}
        fail == ServerError @@ [loans |-> L, payments |-> P]
    IN
    IF d = {} THEN fail
    ELSE
      LET pk == IF id = None THEN fresh ELSE id
          row == [loan_id |-> loan_id, date |-> CHOOSE x \in d : TRUE,
                  amount |-> data.amount, note |-> Get(data, "note", None)]
          ins == InsertPayment(P, pk, row)
      IN
      IF ins = {} \/ loan_id = None \/ (fk /\ loan_id \notin DOMAIN L)
      THEN fail
      ELSE
        LET P2 == CHOOSE x \in ins : TRUE IN
        [loans |-> CheckCloseLoan(L, P2, loan_id), payments |-> P2, status |-> 200,
         body |-> PaymentToDict(pk, P2[pk])]

\* ------------------------------------------------------------------ POST /api/transactions
\* the lookup of db.session.merge(tx)
TransactionQueryGet(T, id) == IF id \in DOMAIN T THEN {T[id]} ELSE {}

\* db.session.merge(tx): every attribute of tx is copied onto the row
MergeAttrs(data, user_id, date) ==
    [user_id |-> user_id, date |-> date, amount |-> data.amount,
     type |-> Get(data, "type", None)]

save_transaction_commit(T, data, user_id, snap, fresh) ==
    LET id == Get(data, "id", None)
        d == IF "date" \in DOMAIN data THEN Strptime(data.date) ELSE {}
        fail == ServerError @@ [transactions |-> T]
    IN
    IF d = {} THEN fail
    ELSE
      LET new == MergeAttrs(data, user_id, CHOOSE x \in d : TRUE)
          \* tx.to_dict() of the transient tx, whose id stays as given
          body == TransactionToDict(id, new)
      IN
      IF snap = {}
      THEN
        LET pk == IF id = None THEN fresh ELSE id IN
        IF pk \in DOMAIN T \/ new.user_id = None \/ new.type = None
        THEN fail
        ELSE [transactions |-> T @@ (pk :> new), status |-> 200, body |-> body]
      ELSE
        LET old == CHOOSE r \in snap : TRUE
            changed == ChangedColumns(new, old)
        IN
        IF changed = {}
        THEN [transactions |-> T, status |-> 200, body |-> body]
        ELSE IF id \notin DOMAIN T
        THEN fail   \* StaleDataError
        ELSE IF \E f \in changed \cap {"user_id", "type"} : new[f] = None
        THEN fail
        ELSE [transactions |-> [T EXCEPT ![id] = [f \in DOMAIN @ |-> IF f \in changed THEN new[f] ELSE @[f]]],
              status |-> 200, body |-> body]

save_transaction(T, data, user_id, fresh) ==
    save_transaction_commit(T, data, user_id, TransactionQueryGet(T, Get(data, "id", None)), fresh)

\* ------------------------------------------------------------------ DELETE /api/transactions/<tx_id>
\* the handler from `if tx:` on, given the row its lookup read (snap)
delete_transaction_commit(T, tx_id, snap) ==
    IF snap # {}
    THEN [transactions |-> [i \in DOMAIN T \ {tx_id} |-> T[i]],
          status |-> 200, body |-> [message |-> "Deleted"]]
    ELSE [transactions |-> T, status |-> 404, body |-> [error |-> "Not found"]]

delete_transaction(T, tx_id) ==
    delete_transaction_commit(T, tx_id, TransactionQueryGet(T, tx_id))

\* ------------------------------------------------------------------ sequential specification
Empty == [x \in {} |-> None]

\* uuid4 of a column default: an id the table does not hold
FreshIds(id, pool, table) == IF id = None THEN pool \ DOMAIN table ELSE {None}

\* the owner of the row a lookup read, None when it read none
OwnerOf(snap) == IF snap = {} THEN None ELSE (CHOOSE r \in snap : TRUE).user_id

\* the record of a request: found = owner of the row its lookup read (for a
\* payment add: the loanId it named), removed = number of payments it deleted,
\* nested = its payload had a 'payments' key
Request(op, id, user, r, found, removed, nested) ==
    [op |-> op, id |-> id, user |-> user, status |-> r.status, body |-> r.body,
     found |-> found, removed |-> removed, nested |-> nested]

Idle == [pc |-> "idle"]

\* the number of rows of the tables L, P, T
Rows(L, P, T) ==
    Cardinality(DOMAIN L) + Cardinality(DOMAIN P) + Cardinality(DOMAIN T)

Init ==
    /\ loans = Empty
    /\ payments = Empty
    /\ transactions = Empty
    /\ foreign_keys \in BOOLEAN
    /\ last = Request("none", None, None, [status |-> 200, body |-> Empty], None, 0, FALSE)
    /\ createdBy = Empty
    /\ workers = [w \in {1, 2} |-> Idle]
    /\ commits = <<>>

Sync ==
    \E user \in UserArgs :
      /\ last' = Request("sync", None, user,
                         get_user_data(loans, payments, transactions, user), None, 0, FALSE)
      /\ UNCHANGED <<loans, payments, transactions, foreign_keys, createdBy, concVars>>

SaveLoan ==
    \E data \in LoanPayloads, user \in UserArgs :
      \E fresh \in FreshIds(Get(data, "id", None), LoanIds, loans) :
        LET r == save_loan(loans, payments, data, user, fresh) IN
        /\ Rows(r.loans, r.payments, transactions) <= MaxRows
        /\ loans' = r.loans
        /\ payments' = r.payments
        /\ last' = Request("save_loan", Get(data, "id", None), user, r,
                           OwnerOf(LoanQueryGet(loans, Get(data, "id", None))),
                           Cardinality(DOMAIN payments \ DOMAIN r.payments),
                           "payments" \in DOMAIN data)
        /\ createdBy' = [i \in DOMAIN r.loans |->
                           IF i \in DOMAIN loans THEN createdBy[i] ELSE user]
        /\ UNCHANGED <<transactions, foreign_keys, concVars>>

DeleteLoan ==
    \E loan_id \in LoanIds :
      LET r == delete_loan(loans, payments, loan_id) IN
      /\ loans' = r.loans
      /\ payments' = r.payments
      /\ last' = Request("delete_loan", loan_id, None, r,
                         OwnerOf(LoanQueryGet(loans, loan_id)),
                         Cardinality(DOMAIN payments \ DOMAIN r.payments), FALSE)
      /\ createdBy' = [i \in DOMAIN r.loans |-> createdBy[i]]
      /\ UNCHANGED <<transactions, foreign_keys, concVars>>

AddPayment ==
    \E data \in PaymentPayloads :
      \E fresh \in FreshIds(Get(data, "id", None), PaymentIds, payments) :
        LET r == add_payment(loans, payments, data, foreign_keys, fresh) IN
        /\ Rows(r.loans, r.payments, transactions) <= MaxRows
        /\ loans' = r.loans
        /\ payments' = r.payments
        /\ last' = Request("add_payment", Get(data, "id", None), None, r,
                           Get(data, "loanId", None),
                           Cardinality(DOMAIN payments \ DOMAIN r.payments), FALSE)
        /\ UNCHANGED <<transactions, foreign_keys, createdBy, concVars>>

SaveTransaction ==
    \E data \in TxPayloads, user \in UserArgs :
      \E fresh \in FreshIds(Get(data, "id", None), TxIds, transactions) :
        LET r == save_transaction(transactions, data, user, fresh) IN
        /\ Rows(loans, payments, r.transactions) <= MaxRows
        /\ transactions' = r.transactions
        /\ last' = Request("save_transaction", Get(data, "id", None), user, r,
                           OwnerOf(TransactionQueryGet(transactions, Get(data, "id", None))),
                           0, FALSE)
        /\ UNCHANGED <<loans, payments, foreign_keys, createdBy, concVars>>

DeleteTransaction ==
    \E tx_id \in TxIds :
      LET r == delete_transaction(transactions, tx_id) IN
      /\ transactions' = r.transactions
      /\ last' = Request("delete_transaction", tx_id, None, r,
                         OwnerOf(TransactionQueryGet(transactions, tx_id)), 0, FALSE)
      /\ UNCHANGED <<loans, payments, foreign_keys, createdBy, concVars>>

Next ==
    \/ Sync
    \/ SaveLoan
    \/ DeleteLoan
    \/ AddPayment
    \/ SaveTransaction
    \/ DeleteTransaction

Spec == Init /\ [][Next]_vars

\* ------------------------------------------------------------------ concurrent specification
\* Two request workers (the server runs handlers on concurrent threads, each with
\* its own session) serve upserts and deletes of one loan id and one transaction
\* id.  A handler's lookup and its commit are separate steps; the store applies
\* each commit atomically and a lookup reads the committed rows.  A round ends
\* when both workers have answered.
Workers == {1, 2}
ConcLoanId == "id1"
ConcTxId == "id1"

\* well-formed loan bodies: those of LoanBodies that parse and name the loan, and
\* one that differs from the first in name and lender only
ConcLoanBodies ==
    {b \in LoanBodies : "name" \in DOMAIN b /\ LoanStartDate(b) # {}}
      \cup { [name |-> "home", lender |-> "bank", principal |-> 2,
              startDate |-> "2024-03-15T00:00:00Z", status |-> "active",
              isForeclosed |-> FALSE] }

ConcTxBodies == {b \in TxBodies : "type" \in DOMAIN b /\ Strptime(b.date) # {}}

\* a worker that has done its lookup
Reading(op, data, user, snap) ==
    [pc |-> "read", op |-> op, data |-> data, user |-> user, snap |-> snap,
     readBefore |-> Len(commits)]

\* a worker that has answered
Done(w, r) == [workers[w] EXCEPT !.pc = "done"] @@ [status |-> r.status]

ConcReadSaveLoan(w) ==
    /\ workers[w].pc = "idle"
    /\ \E body \in ConcLoanBodies, user \in Users :
         workers' = [workers EXCEPT ![w] =
           Reading("save_loan", body @@ [id |-> ConcLoanId], user,
                   LoanQueryGet(loans, ConcLoanId))]
    /\ UNCHANGED <<loans, payments, transactions, foreign_keys, commits, seqVars>>

ConcCommitSaveLoan(w) ==
    /\ workers[w].pc = "read" /\ workers[w].op = "save_loan"
    /\ LET r == save_loan_commit(loans, payments, workers[w].data, workers[w].user,
                                 workers[w].snap, None)
       IN /\ loans' = r.loans
          /\ payments' = r.payments
          /\ workers' = [workers EXCEPT ![w] = Done(w, r)]
    /\ commits' = Append(commits, w)
    /\ UNCHANGED <<transactions, foreign_keys, seqVars>>

ConcReadDeleteLoan(w) ==
    /\ workers[w].pc = "idle"
    /\ workers' = [workers EXCEPT ![w] =
         Reading("delete_loan", [id |-> ConcLoanId], None, LoanQueryGet(loans, ConcLoanId))]
    /\ UNCHANGED <<loans, payments, transactions, foreign_keys, commits, seqVars>>

ConcCommitDeleteLoan(w) ==
    /\ workers[w].pc = "read" /\ workers[w].op = "delete_loan"
    /\ LET r == delete_loan_commit(loans, payments, workers[w].data.id, workers[w].snap)
       IN /\ loans' = r.loans
          /\ payments' = r.payments
          /\ workers' = [workers EXCEPT ![w] = Done(w, r)]
    /\ commits' = Append(commits, w)
    /\ UNCHANGED <<transactions, foreign_keys, seqVars>>

ConcReadSaveTransaction(w) ==
    /\ workers[w].pc = "idle"
    /\ \E body \in ConcTxBodies, user \in Users :
         workers' = [workers EXCEPT ![w] =
           Reading("save_transaction", body @@ [id |-> ConcTxId], user,
                   TransactionQueryGet(transactions, ConcTxId))]
    /\ UNCHANGED <<loans, payments, transactions, foreign_keys, commits, seqVars>>

ConcCommitSaveTransaction(w) ==
    /\ workers[w].pc = "read" /\ workers[w].op = "save_transaction"
    /\ LET r == save_transaction_commit(transactions, workers[w].data, workers[w].user,
                                        workers[w].snap, None)
       IN /\ transactions' = r.transactions
          /\ workers' = [workers EXCEPT ![w] = Done(w, r)]
    /\ commits' = Append(commits, w)
    /\ UNCHANGED <<loans, payments, foreign_keys, seqVars>>

ConcReadDeleteTransaction(w) ==
    /\ workers[w].pc = "idle"
    /\ workers' = [workers EXCEPT ![w] =
         Reading("delete_transaction", [id |-> ConcTxId], None,
                 TransactionQueryGet(transactions, ConcTxId))]
    /\ UNCHANGED <<loans, payments, transactions, foreign_keys, commits, seqVars>>

ConcCommitDeleteTransaction(w) ==
    /\ workers[w].pc = "read" /\ workers[w].op = "delete_transaction"
    /\ LET r == delete_transaction_commit(transactions, workers[w].data.id, workers[w].snap)
       IN /\ transactions' = r.transactions
          /\ workers' = [workers EXCEPT ![w] = Done(w, r)]
    /\ commits' = Append(commits, w)
    /\ UNCHANGED <<loans, payments, foreign_keys, seqVars>>

\* both workers have answered: the next round of requests starts
ConcNextRound ==
    /\ \A w \in Workers : workers[w].pc = "done"
    /\ workers' = [w \in Workers |-> Idle]
    /\ commits' = <<>>
    /\ UNCHANGED <<loans, payments, transactions, foreign_keys, seqVars>>

ConcNext ==
    \/ \E w \in Workers : ConcReadSaveLoan(w)
    \/ \E w \in Workers : ConcCommitSaveLoan(w)
    \/ \E w \in Workers : ConcReadDeleteLoan(w)
    \/ \E w \in Workers : ConcCommitDeleteLoan(w)
    \/ \E w \in Workers : ConcReadSaveTransaction(w)
    \/ \E w \in Workers : ConcCommitSaveTransaction(w)
    \/ \E w \in Workers : ConcReadDeleteTransaction(w)
    \/ \E w \in Workers : ConcCommitDeleteTransaction(w)
    \/ ConcNextRound

SpecConc == Init /\ [][ConcNext]_vars

\* ------------------------------------------------------------------ properties (Spec)
\* the response a sync for user would get in the current state
SyncOf(user) == get_user_data(loans, payments, transactions, user)

\* C1: a Loan created by an upsert with userId A is, while that record exists,
\* in no sync response for another userId B: every sync response holds only
\* loans that the requesting user created, and the sync of any other user omits
\* each stored loan.
C1_SyncIsolation ==
    /\ \A id \in DOMAIN loans :
         \A B \in Users \ {createdBy[id]} :
           \A d \in SyncOf(B).body.loans : d.id # id
    /\ (last.op = "sync" /\ last.status = 200) =>
         \A d \in last.body.loans : createdBy[d.id] = last.user

\* a sync for B that returns a loan of B, while a loan created by A is stored
C1_Witness ==
    /\ last.op = "sync" /\ last.user = "B" /\ last.status = 200
    /\ last.body.loans # {}
    /\ \E id \in DOMAIN loans : createdBy[id] = "A"

\* C2: after a successful DELETE /api/loans/{id} no Payment references that id,
\* no sync returns a loan (hence a payment) under that id, and a loan created
\* again under that id is returned with an empty payment list.
C2_CascadeDelete ==
    (last.op = "delete_loan" /\ last.status = 200) =>
      /\ LoanPaymentIds(payments, last.id) = {}
      /\ \A u \in Users : \A d \in SyncOf(u).body.loans : d.id # last.id
      /\ \A data \in LoanPayloads, u \in Users :
           LET r == save_loan(loans, payments, data, u, None) IN
           (Get(data, "id", None) = last.id /\ r.status = 200) =>
             /\ r.body.payments = {}
             /\ \A d \in get_user_data(r.loans, r.payments, transactions, u).body.loans :
                  d.id = last.id => d.payments = {}

\* a loan with two payments was deleted
C2_Witness ==
    last.op = "delete_loan" /\ last.status = 200 /\ last.removed = 2

\* C3: posting the same Loan payload (with an id) twice in a row under the same
\* userId gives, from every reachable store, the same store and the same
\* response after the second call as after the first, with the loan stored
\* under that id when the call succeeds.
C3_IdempotentLoanUpsert ==
    \A data \in LoanPayloads, u \in UserArgs :
      "id" \in DOMAIN data =>
        LET r1 == save_loan(loans, payments, data, u, None)
            r2 == save_loan(r1.loans, r1.payments, data, u, None)
        IN /\ r2.loans = r1.loans
           /\ r2.payments = r1.payments
           /\ r2.status = r1.status
           /\ r2.body = r1.body
           /\ r1.status = 200 => (data.id \in DOMAIN r1.loans /\ r1.body.id = data.id)

\* a loan upsert has just created a loan, and posting its payload again returns
\* the response recorded and leaves the store as it is
C3_Witness ==
    /\ last.op = "save_loan" /\ last.status = 200 /\ last.found = None
    /\ last.id \in DOMAIN loans
    /\ \E data \in LoanPayloads :
         /\ Get(data, "id", None) = last.id
         /\ save_loan(loans, payments, data, last.user, None)
              = [loans |-> loans, payments |-> payments, status |-> 200, body |-> last.body]

\* C4: after a committed POST /api/transactions with an id, the one row stored
\* under that id carries the values of the payload and the userId of this call.
C4_TransactionUpsertReplaces ==
    (last.op = "save_transaction" /\ last.status = 200 /\ last.id # None) =>
      /\ last.id \in DOMAIN transactions
      /\ TransactionToDict(last.id, transactions[last.id]) = last.body
      /\ transactions[last.id].user_id = last.user
      /\ Cardinality({i \in DOMAIN transactions : i = last.id}) = 1

\* user B upserted, with the second payload, a transaction that user A owned
C4_Witness ==
    /\ last.op = "save_transaction" /\ last.status = 200
    /\ last.found = "A" /\ last.user = "B"
    /\ last.body.amount = 2

\* C5: a DELETE of a loan id (transaction id) that is not stored answers 404 and
\* changes no table.
C5_DeleteNonexistent ==
    [][ /\ \A id \in LoanIds \ DOMAIN loans :
             (last'.op = "delete_loan" /\ last'.id = id) =>
               /\ last'.status = 404
               /\ UNCHANGED <<loans, payments, transactions>>
        /\ \A id \in TxIds \ DOMAIN transactions :
             (last'.op = "delete_transaction" /\ last'.id = id) =>
               /\ last'.status = 404
               /\ UNCHANGED <<loans, payments, transactions>>
      ]_vars

\* a loan delete answered 404 while other rows are stored
C5_Witness ==
    /\ last.op = "delete_loan" /\ last.status = 404
    /\ loans # Empty /\ payments # Empty /\ transactions # Empty

\* C6: POST /api/loans leaves the table payments as it is, and the Loan it
\* returns holds exactly the payments stored for that loan before the call.
C6_LoanUpsertIgnoresPayments ==
    [][ last'.op = "save_loan" =>
          /\ payments' = payments
          /\ last'.status = 200 =>
               last'.body.payments =
                 {PaymentToDict(pid, payments[pid]) : pid \in LoanPaymentIds(payments, last'.body.id)}
      ]_vars

\* an upsert whose payload had a 'payments' array returned a loan with payments
C6_Witness ==
    /\ last.op = "save_loan" /\ last.status = 200 /\ last.nested
    /\ last.body.payments # {}

\* C7: POST /api/payments changes no Loan, and a stored Loan's status changes
\* in a loan upsert only.
C7_PaymentNeverTransitions ==
    [][ /\ last'.op = "add_payment" => loans' = loans
        /\ \A id \in DOMAIN loans \cap DOMAIN loans' :
             (loans'[id].status # loans[id].status
                \/ loans'[id].is_foreclosed # loans[id].is_foreclosed) =>
               last'.op = "save_loan"
      ]_vars

\* a payment was added to an active loan whose payments now reach its principal
C7_Witness ==
    /\ last.op = "add_payment" /\ last.status = 200
    /\ last.found \in DOMAIN loans
    /\ SumAmounts(payments, LoanPaymentIds(payments, last.found)) >= loans[last.found].principal
    /\ loans[last.found].status = "active"
    /\ ~loans[last.found].is_foreclosed

\* C8: every stored Payment's loan_id is the id of a stored Loan.
C8_ReferentialInvariant ==
    \A pid \in DOMAIN payments : payments[pid].loan_id \in DOMAIN loans

\* C10: a step leaves every stored Payment as it is, unless the step is a
\* successful DELETE /api/loans/{id} of the Payment's loan, which removes it.
C10_PaymentsRemovedByLoanDeleteOnly ==
    [][ \A pid \in DOMAIN payments :
          IF pid \in DOMAIN payments'
          THEN payments'[pid] = payments[pid]
          ELSE /\ last'.op = "delete_loan"
               /\ last'.status = 200
               /\ last'.id = payments[pid].loan_id
      ]_vars

\* a loan delete removed a payment and another loan's payment is still stored
C10_Witness ==
    /\ last.op = "delete_loan" /\ last.status = 200 /\ last.removed = 1
    /\ payments # Empty

\* ------------------------------------------------------------------ properties (SpecConc)
\* the columns worker w's upsert assigns from its payload
Written(w) ==
    IF workers[w].op = "save_loan"
    THEN LoanAttrs(workers[w].data, CHOOSE d \in LoanStartDate(workers[w].data) : TRUE)
    ELSE MergeAttrs(workers[w].data, workers[w].user,
                    CHOOSE d \in Strptime(workers[w].data.date) : TRUE)

\* the row now stored under the id the workers raced on
StoredRow(op) ==
    IF op = "save_loan" THEN LoanQueryGet(loans, ConcLoanId)
    ELSE TransactionQueryGet(transactions, ConcTxId)

\* both workers served an upsert of the same table and id, and both did their
\* lookup before either committed
RacingUpserts ==
    /\ \A w \in Workers : workers[w].pc = "done" /\ workers[w].readBefore = 0
    /\ workers[1].op = workers[2].op
    /\ workers[1].op \in {"save_loan", "save_transaction"}

\* C9 as stated: both requests complete and the stored record equals the payload
\* of the request that committed later, in every column.
C9_LaterCommitWinsEntirely ==
    RacingUpserts =>
      LET later == commits[2]
          row == StoredRow(workers[later].op)
      IN /\ \A w \in Workers : workers[w].status = 200
         /\ row # {}
         /\ \A f \in DOMAIN Written(later) :
              (CHOOSE r \in row : TRUE)[f] = Written(later)[f]

\* C9 as amended: if both lookups found the row, both requests complete and each
\* payload column of the stored record holds the later committer's value where
\* that differs from the value read, and the earlier committer's value elsewhere
\* (a loan keeps its owner); if neither found it, the earlier commit's record is
\* stored under the earlier requester and the later request fails.
C9_LaterCommitWinsChangedColumns ==
    RacingUpserts =>
      LET earlier == commits[1]
          later == commits[2]
          op == workers[later].op
          row == StoredRow(op)
          snap == workers[later].snap
      IN /\ workers[earlier].snap = snap
         /\ row # {}
         /\ LET now == CHOOSE r \in row : TRUE IN
            IF snap # {}
            THEN LET old == CHOOSE r \in snap : TRUE IN
                 /\ \A w \in Workers : workers[w].status = 200
                 /\ \A f \in DOMAIN Written(later) :
                      now[f] = IF Written(later)[f] # old[f]
                               THEN Written(later)[f]
                               ELSE Written(earlier)[f]
                 /\ op = "save_loan" => now.user_id = old.user_id
            ELSE /\ workers[earlier].status = 200
                 /\ workers[later].status = 500
                 /\ \A f \in DOMAIN Written(earlier) : now[f] = Written(earlier)[f]
                 /\ now.user_id = workers[earlier].user

\* two loan upserts raced on a stored loan, and the stored record now has a
\* column of the earlier payload that the later payload contradicts, next to a
\* column of the later payload that the earlier payload contradicts
C9_Witness ==
    /\ RacingUpserts
    /\ workers[1].op = "save_loan"
    /\ workers[1].snap # {}
    /\ LET now == loans[ConcLoanId] IN
       /\ \E f \in DOMAIN Written(commits[2]) :
            now[f] = Written(commits[1])[f] /\ now[f] # Written(commits[2])[f]
       /\ \E f \in DOMAIN Written(commits[2]) :
            now[f] = Written(commits[2])[f] /\ now[f] # Written(commits[1])[f]

====
